---- MODULE Spec2Model ----
(***************************************************************************)
(* State-machine model of the UrbanScan teleoperation console              *)
(* (bothUI/webrtc-admin): the useWebRTC, useJoystick and useElevation      *)
(* hooks and the WebRTCAdmin component that composes them.                 *)
(*                                                                         *)
(* One action models one event handler run to completion, followed by the  *)
(* React effects that the handler's state changes re-run (operator Commit).*)
(* Times are in units of 100 ms.  Joystick axes are in thousandths of the  *)
(* full deflection, elevations and altitudes in metres.                    *)
(***************************************************************************)
EXTENDS Integers, Sequences, FiniteSets, TLC

\* ------------------------------------------------------------------ bounds
MaxPeers == 2          \* peer sessions created in one run
MaxThrottleTicks == 1  \* poll ticks that may raise the throttle above idle
MaxTracks == 3         \* video tracks handled in one session
MaxTime == 58          \* last instant of a run, in units of 100 ms
MaxLocMsgs == 3        \* LOCATION messages accepted in one run
MaxPoints == 4         \* vertices of a survey area
MaxPending == 2        \* elevation requests outstanding when the operator clicks
MaxElevTime == 11      \* last instant of a run of the elevation lookups
MaxAckTime == 102      \* last instant of a run of capture and recording requests
MaxHoldTicks == 210    \* poll ticks with the throttle stick held
Prefilled == 99        \* cache entries left by earlier lookups

\* ------------------------------------------------------- program constants
JOYSTICK_DEADZONE == 50        \* 0.05, in thousandths
THROTTLE_CHANGE_RATE == 5
PWM_GATE == 5                  \* minimum change that is sent
HEARTBEAT_TIMEOUT == 50        \* 5000 ms
CHECK_INTERVAL == 3            \* 300 ms
ROLL == 1
PITCH == 2
THROTTLE == 3
YAW == 4
MAX_ELEVATION_CACHE_SIZE == 100
LOOKUP_EPSILON == 1000         \* 0.0001 degree, in units of 1e-7 degree
THROTTLE_WAIT == 10            \* 1000 ms
CAPTURE_TIMEOUT == 100         \* 10000 ms

Channels == {ROLL, PITCH, THROTTLE, YAW}

NeutralPWM == (ROLL :> 1500) @@ (PITCH :> 1500) @@ (THROTTLE :> 1000) @@ (YAW :> 1500)

\* Events whose listeners handleOffer attaches to a new peer.
OfferListeners == {"signal", "connect", "close", "error", "stream", "track"}

\* Listener slots removed by cleanupPeer's removeAllListeners loop; the
\* "data" event covers both data handlers the component can attach.
RemovedOnCleanup ==
  {"signal", "connect", "close", "error", "data_initial", "data_main", "stream", "track"}

LivePhases == {"negotiating", "answered", "open"}

NoPeer == [phase |-> "none", listeners |-> {}]

\* null / undefined
Null == [null |-> TRUE]

Abs(x) == IF x < 0 THEN -x ELSE x
Max(a, b) == IF a > b THEN a ELSE b
Min(a, b) == IF a < b THEN a ELSE b

VARIABLES
  \* useWebRTC
  peers,              \* every SimplePeer ever created: phase and attached listeners
  nPeers,             \* number of peers created so far
  peerRef,            \* peerRef.current (0 = null)
  dataListener,       \* activeListenersRef.current.dataListener
  trackCount,         \* trackCountRef.current
  connectionStatus,
  videoActive,
  videoTracks,        \* videoTracksRef.current: per role, the peer (0 = none) and the
                      \* feed of the track that is bound
  videoFlowing,       \* environment: frames of the regular track are arriving
  \* useJoystick
  controlMode,
  joystickConnected,
  pollTimer,          \* joystickPollingRef.current is set
  currentPWMValues,
  lastSentPWMValues,
  lastButtonState,
  \* WebRTCAdmin liveness
  now,                \* Date.now()
  lastHeartbeatTime,
  heartbeatError,
  checkDue,           \* instant of the next liveness-check tick
  \* WebRTCAdmin inbound protocol state
  captureStatus,
  captureTimer,       \* window.captureSafeguardTimeout is pending
  captureDue,         \* instant at which the live safeguard timeout fires (0 = none)
  videoRecording,
  videoRecordingStatus,
  thermalSettings,    \* the two fields telemetry can set
  \* WebRTCAdmin telemetry position
  droneLocation,
  elevationCache,     \* entries in key order (Object.keys order)
  lastValidAGL,
  pending,            \* handleLocationMessage calls suspended at the elevation request
  locSeq,             \* number of LOCATION messages accepted so far
  knownGround,        \* the ground elevation obtained last (lookup or cache)
  \* useElevation and the map
  throttle,           \* state of the _.throttle wrapper in fetchElevationRef
  elevationData,
  elevationLoading,
  targetLocation,
  showMap,
  surveillanceMode,
  surveillancePoints,
  isAreaFinalized,
  \* WebRTCAdmin keyboard
  activeKeys,         \* keys marked active
  keysDown,           \* environment: keys the operator holds down
  \* a pure function under test: its arguments and its result
  calc,
  \* observation of the last handler
  ev,                 \* name of the handler that ran last
  statusTrail,        \* values passed to setConnectionStatus by the last handler
  sentNow,            \* commands the last handler passed to sendCommand
  lastMsg,            \* the message the last data or offer handler received
  lastFetch,          \* the elevation request whose completion ran last, and its outcome
  lastTrack,          \* the track the last track handler received
  videoRequestAt,     \* instant of the recording request still unanswered
  lastEmitted         \* per channel: last MANUAL_PWM value handed to the data channel (0 = none)

sessVars == <<peers, nPeers, peerRef, dataListener, trackCount, connectionStatus,
              videoActive, videoTracks, videoFlowing>>
joyVars == <<controlMode, joystickConnected, pollTimer, currentPWMValues,
             lastSentPWMValues, lastButtonState>>
liveVars == <<now, lastHeartbeatTime, heartbeatError, checkDue>>
decVars == <<captureStatus, captureTimer, captureDue, videoRecording,
             videoRecordingStatus, thermalSettings>>
locVars == <<droneLocation, elevationCache, lastValidAGL, pending, locSeq, knownGround>>
elevVars == <<throttle, elevationData, elevationLoading, targetLocation>>
areaVars == <<showMap, surveillanceMode, surveillancePoints, isAreaFinalized>>
keyVars == <<activeKeys, keysDown>>
obsVars == <<ev, statusTrail, sentNow, lastMsg, lastFetch, lastTrack, videoRequestAt,
             lastEmitted>>

\* Everything the console holds, without the observation of the last handler.
consoleVars == <<sessVars, joyVars, liveVars, decVars, locVars, elevVars, areaVars, keyVars>>

vars == <<consoleVars, obsVars, calc>>

\* ------------------------------------------------------------ useWebRTC

\* cleanupPeer that forgets the old peer without destroying it.
cleanupPeer_forgets(ps, pr, dl, tc) ==
  [peers |-> ps, peerRef |-> 0, dataListener |-> "none", trackCount |-> 0]

\* cleanupPeer: tears down peerRef.current, if there is one.
cleanupPeer(ps, pr, dl, tc) ==
  IF pr # 0
  THEN [peers |-> [ps EXCEPT ![pr] =
                     [phase |-> "destroyed",
                      listeners |-> ps[pr].listeners \ RemovedOnCleanup]],
        peerRef |-> 0, dataListener |-> "none", trackCount |-> 0]
  ELSE [peers |-> ps, peerRef |-> pr, dataListener |-> dl, trackCount |-> tc]

\* A validation that looks at the type of the offer only.
validOffer_typeOnly(o) == ~o.null /\ o.type = "offer"

\* handleOffer's validation of the offer payload.
Offers == {Null} \cup [null : {FALSE}, sdp : BOOLEAN, type : {"offer", "answer"}]
validOffer(o) == ~o.null /\ o.sdp /\ o.type = "offer"

\* sendCommand: what happens to a command, given the state the callback closes over.
\* peer.send on a peer whose data channel is not open throws.
sendCommand(st, va, ps, pr) ==
  IF pr = 0 \/ ~(st = "connected" \/ va) THEN "dropped"
  ELSE IF ps[pr].phase = "open" THEN "sent" ELSE "threw"

\* Frames can only arrive from a peer that still exists.
Flowing(ps, vt, vf) == vf /\ vt.regular # 0 /\ ps[vt.regular].phase \in {"answered", "open"}

\* ------------------------------------------------------------ useJoystick

\* A poll guard that accepts the Connected state only.
pollGuard_connectedOnly(cm, jc, st, va) ==
  cm = "manual" /\ jc /\ st = "connected"

\* Guard of the poll effect: the interval is (re)created exactly when this holds.
pollGuard(cm, jc, st, va) ==
  ~(cm # "manual" \/ ~jc \/ (st # "connected" /\ ~va))

\* An applyDeadzone that cuts the dead zone out without rescaling the rest.
applyDeadzone_clip(value, deadzone) ==
  IF Abs(value) < deadzone THEN [num |-> 0, den |-> 1] ELSE [num |-> value, den |-> 1000]

\* applyDeadzone, on thousandths; the result is the fraction num/den.
applyDeadzone(value, deadzone) ==
  IF Abs(value) < deadzone THEN [num |-> 0, den |-> 1]
  ELSE IF value > 0 THEN [num |-> value - deadzone, den |-> 1000 - deadzone]
  ELSE [num |-> value + deadzone, den |-> 1000 - deadzone]

\* Math.round of the fraction n/d (d > 0): halves round up.
Round(n, d) == (2 * n + d) \div (2 * d)

\* mapToPWM: Math.round(1500 + value * 500)
mapToPWM(v) == Round(1500 * v.den + 500 * v.num, v.den)

\* The throttle update inside pollJoystick's setCurrentPWMValues.
throttleStep(prev, rawThrottle) ==
  IF Abs(rawThrottle) > JOYSTICK_DEADZONE
  THEN Round(Max(1000 * 1000, Min(2000 * 1000, 1000 * prev + rawThrottle * THROTTLE_CHANGE_RATE)),
             1000)
  ELSE prev

\* Channels the PWM send effect finds changed enough to send.
pwmNeeded(pwm, last) == {ch \in Channels : Abs(pwm[ch] - last[ch]) >= PWM_GATE}

\* The PWM send effect: per channel, in key order, send and record.  A throwing
\* send aborts the effect at the first channel it tries.
pwmSendEffect(st, va, cm, jc, pwm, last, ps, pr) ==
  LET need == pwmNeeded(pwm, last)
      res == sendCommand(st, va, ps, pr)
      order == SelectSeq(<<ROLL, PITCH, THROTTLE, YAW>>, LAMBDA ch : ch \in need)
      cmd(ch) == [cmd |-> "MANUAL_PWM", ch |-> ch, val |-> pwm[ch], peer |-> pr, res |-> res]
  IN IF ~((st = "connected" \/ va) /\ cm = "manual" /\ jc) \/ need = {}
     THEN [last |-> last, out |-> <<>>]
     ELSE IF res = "threw"
     THEN [last |-> last, out |-> <<cmd(order[1])>>]
     ELSE [last |-> [ch \in Channels |-> IF ch \in need THEN pwm[ch] ELSE last[ch]],
           out |-> [i \in 1..Len(order) |-> cmd(order[i])]]

\* ------------------------------------------------- render and effects

\* The effects that run after a handler has set React state to (st, va, cm, jc,
\* pwm) and left the refs at (ps, pr, dl).  pwmNew: setCurrentPWMValues ran.
\* hbSet: setLastHeartbeatTime(Date.now()) ran.  out: what the handler itself sent.
\* lc: setDroneLocation or setElevationCache ran.
Commit(st, va, cm, jc, pwm, pwmNew, hbSet, ps, pr, dl, out, lc) ==
  LET changedSV == st # connectionStatus \/ va # videoActive
      rerun == changedSV \/ lc      \* the data-listener effect runs again
      changedJoy == changedSV \/ cm # controlMode \/ jc # joystickConnected
      \* effect on [videoActive]
      videoEff == va /\ ~videoActive
      hb == IF hbSet \/ videoEff THEN now ELSE lastHeartbeatTime
      \* data listener: cleanup of the main effect, then the initial-listener
      \* effect on [connectionStatus], then the main effect
      dl1 == IF rerun /\ pr # 0 /\ dl # "none" THEN "none" ELSE dl
      ls1 == IF rerun /\ pr # 0 /\ dl # "none" THEN ps[pr].listeners \ {dl}
             ELSE IF pr # 0 THEN ps[pr].listeners ELSE {}
      setup == st # connectionStatus /\ st = "connected" /\ pr # 0 /\ dl1 = "none"
      dl2 == IF setup THEN "data_initial" ELSE dl1
      ls2 == IF setup THEN ls1 \cup {"data_initial"} ELSE ls1
      dl3 == IF rerun /\ pr # 0 THEN "data_main" ELSE dl2
      ls3 == IF rerun /\ pr # 0 THEN (ls2 \ {dl2}) \cup {"data_main"} ELSE ls2
      ps3 == IF pr # 0 THEN [ps EXCEPT ![pr].listeners = ls3] ELSE ps
      \* PWM send effect
      eff == IF pwmNew \/ changedJoy
             THEN pwmSendEffect(st, va, cm, jc, pwm, lastSentPWMValues, ps3, pr)
             ELSE [last |-> lastSentPWMValues, out |-> <<>>]
      allOut == out \o eff.out
      emitted(ch) == SelectSeq(eff.out, LAMBDA c : c.ch = ch /\ c.res = "sent")
  IN /\ connectionStatus' = st
     /\ videoActive' = va
     /\ controlMode' = cm
     /\ joystickConnected' = jc
     /\ currentPWMValues' = pwm
     /\ peers' = ps3
     /\ peerRef' = pr
     /\ dataListener' = dl3
     /\ pollTimer' = pollGuard(cm, jc, st, va)
     /\ lastSentPWMValues' = eff.last
     /\ lastHeartbeatTime' = hb
     /\ heartbeatError' = IF videoEff THEN FALSE ELSE heartbeatError
     /\ checkDue' = IF hb # lastHeartbeatTime \/ va # videoActive
                    THEN now + CHECK_INTERVAL ELSE checkDue
     /\ sentNow' = allOut
     /\ lastEmitted' = [ch \in Channels |->
                          IF emitted(ch) # <<>> THEN emitted(ch)[1].val ELSE lastEmitted[ch]]

\* A handler that sets no React state runs no effect.
NoRender(ps, pr, dl) ==
  /\ peers' = ps
  /\ peerRef' = pr
  /\ dataListener' = dl
  /\ UNCHANGED <<connectionStatus, videoActive, controlMode, joystickConnected,
                 currentPWMValues, pollTimer, lastSentPWMValues, lastHeartbeatTime,
                 heartbeatError, checkDue, lastEmitted>>
  /\ sentNow' = <<>>

\* Observation bookkeeping shared by the handlers that receive no data message;
\* none of them touches the inbound protocol state or the telemetry position.
Obs(name, trail) ==
  /\ ev' = name
  /\ statusTrail' = trail
  /\ lastMsg' = Null
  /\ lastFetch' = Null
  /\ lastTrack' = Null
  /\ UNCHANGED <<decVars, locVars, elevVars, areaVars, keyVars, videoRequestAt, calc>>

\* Observation bookkeeping of a handler that received the message m.
Heard(name, m) ==
  /\ ev' = name
  /\ statusTrail' = <<>>
  /\ lastMsg' = m
  /\ lastFetch' = Null
  /\ lastTrack' = Null
  /\ UNCHANGED <<decVars, locVars, elevVars, areaVars, keyVars, videoRequestAt, calc>>

\* A render caused by a change of connectionStatus or videoActive only.
Render(st, va, ps, pr, dl) ==
  Commit(st, va, controlMode, joystickConnected, currentPWMValues, FALSE, FALSE,
         ps, pr, dl, <<>>, FALSE)

\* The video stops flowing when the peer that carries it is gone.
VideoEnv(ps, vt) == videoFlowing' = Flowing(ps, vt, videoFlowing)

\* ------------------------------------------- inbound messages: decoding

\* A field of a message: a numeral (if hasNum) directly followed by the text word.
Tok(h, n, w) == [hasNum |-> h, num |-> n, word |-> w]
Numeral(n) == Tok(TRUE, n, "")
Word(w) == Tok(FALSE, 0, w)

\* A message is head:field:field...; partsLength is msg.split(":").length.
Msg(head, fields) == [head |-> head, fields |-> fields]
partsLength(m) == 1 + Len(m.fields)
startsWith(m, prefix) == m.head = prefix /\ Len(m.fields) >= 1

\* A JavaScript number, or NaN.
Number(x) == [nan |-> FALSE, val |-> x]

\* parseFloat: the value of the longest numeric prefix, NaN if there is none.
parseFloat(t) == [nan |-> ~t.hasNum, val |-> t.num]

\* parseInt(_, 10), on the integer numerals used here.
parseInt(t) == [nan |-> ~t.hasNum, val |-> IF t.hasNum THEN t.num ELSE 0]

\* The text after the prefix, as substring() returns it.
substring(m) == [text |-> m.fields]

\* The protocol state handleOtherMessages can set.
decState ==
  [captureStatus |-> captureStatus, captureTimer |-> captureTimer,
   captureDue |-> captureDue,
   videoRecording |-> videoRecording, videoRecordingStatus |-> videoRecordingStatus,
   thermalSettings |-> thermalSettings, hbSet |-> FALSE]

\* handleOtherMessages: the protocol state after msg m, from state d.
handleOtherMessages(m, d) ==
  IF m.head = "heartbeat" /\ m.fields = <<>>
  THEN [d EXCEPT !.hbSet = TRUE]
  ELSE IF startsWith(m, "CAPTURE_SUCCESS")
  THEN [d EXCEPT !.captureTimer = FALSE,
                 !.captureDue = IF d.captureTimer THEN 0 ELSE d.captureDue,
                 !.captureStatus = [capturing |-> FALSE, lastCapture |-> m.fields[1],
                                    error |-> Null]]
  ELSE IF startsWith(m, "CAPTURE_ERROR")
  THEN [d EXCEPT !.captureTimer = FALSE,
                 !.captureDue = IF d.captureTimer THEN 0 ELSE d.captureDue,
                 !.captureStatus = [capturing |-> FALSE, lastCapture |-> Null,
                                    error |-> substring(m)]]
  ELSE IF startsWith(m, "VIDEO_STARTED")
  THEN IF partsLength(m) >= 2
       THEN [d EXCEPT !.videoRecordingStatus =
                         [recording |-> TRUE, timestamp |-> m.fields[1],
                          frames |-> [normal |-> Number(0), thermal |-> Number(0),
                                      thermal_data |-> Number(0)],
                          error |-> Null],
                      !.videoRecording = TRUE]
       ELSE d
  ELSE IF startsWith(m, "VIDEO_STOPPED")
  THEN IF partsLength(m) >= 5
       THEN [d EXCEPT !.videoRecordingStatus =
                         [recording |-> FALSE, timestamp |-> m.fields[1],
                          frames |-> [normal |-> parseInt(m.fields[2]),
                                      thermal |-> parseInt(m.fields[3]),
                                      thermal_data |-> parseInt(m.fields[4])],
                          error |-> Null],
                      !.videoRecording = FALSE]
       ELSE d
  ELSE IF startsWith(m, "VIDEO_ERROR")
  THEN [d EXCEPT !.videoRecordingStatus.recording = FALSE,
                 !.videoRecordingStatus.error = substring(m),
                 !.videoRecording = FALSE]
  ELSE IF startsWith(m, "THERMAL_DETECT_REGIONS_STATUS")
  THEN [d EXCEPT !.thermalSettings.detectRegions = (m.fields[1] = Word("enabled"))]
  ELSE IF startsWith(m, "THERMAL_DETECTION_MODE_STATUS")
  THEN [d EXCEPT !.thermalSettings.detectionMode = m.fields[1]]
  ELSE d

\* ------------------------------------------- telemetry position, elevation

\* A value that is present.
Some(x) == [val |-> x]

\* JavaScript truthiness of a ground elevation: undefined and 0 are falsy.
truthy(g) == g # Null /\ g.val # 0

\* toFixed(6) of a coordinate held in units of 1e-7 degree.
toFixed6(x) == IF x < 0 THEN -(10 * Round(-x, 10)) ELSE 10 * Round(x, 10)

cacheKey(lat, lon) == <<toFixed6(lat), toFixed6(lon)>>

\* elevationCache[key], as an index into the entries (0 = undefined).
cacheIndex(cache, key) ==
  IF \E i \in 1..Len(cache) : cache[i].key = key
  THEN CHOOSE i \in 1..Len(cache) : cache[i].key = key
  ELSE 0

\* { ...prevCache, [key]: entry }: an existing key keeps its place.
cachePut(cache, key, e) ==
  LET i == cacheIndex(cache, key)
      entry == [key |-> key, elevation |-> e]
  IN IF i # 0 THEN [cache EXCEPT ![i] = entry] ELSE Append(cache, entry)

\* A limitCacheSize that never drops a key.
limitCacheSize_keepsAll(cache, maxSize) == cache

\* limitCacheSize: drops the oldest keys beyond maxSize.
limitCacheSize(cache, maxSize) ==
  IF Len(cache) <= maxSize THEN cache
  ELSE SubSeq(cache, Len(cache) - maxSize + 1, Len(cache))

\* The fields of a LOCATION message that passes handleLocationMessage's checks
\* (Null if it does not).
locationFields(m) ==
  IF ~startsWith(m, "LOCATION") \/ partsLength(m) # 5 THEN Null
  ELSE LET lat == parseFloat(m.fields[1])
           lon == parseFloat(m.fields[2])
           relAlt == parseFloat(m.fields[3])
           mslAlt == parseFloat(m.fields[4])
       IN IF lat.nan \/ lon.nan \/ relAlt.nan \/ mslAlt.nan THEN Null
          ELSE [lat |-> lat.val, lon |-> lon.val, alt |-> relAlt.val, mslAlt |-> mslAlt.val]

\* currentLocation as handed to setDroneLocation.
position(c, ground, seq) ==
  [lat |-> c.lat, lon |-> c.lon, alt |-> c.alt, mslAlt |-> c.mslAlt,
   groundElevation |-> ground,
   heightAboveGround |-> IF ground = Null THEN Null ELSE Some(c.mslAlt - ground.val),
   seq |-> seq]

\* The position moved by more than the lookup threshold (or there was none).
moved(dl, c) ==
  dl = Null \/ Abs(dl.lat - c.lat) > LOOKUP_EPSILON \/ Abs(dl.lon - c.lon) > LOOKUP_EPSILON

\* handleLocationMessage up to its first await, with the droneLocation and
\* elevationCache its closure holds.  kind: "ignored", "apply" (setDroneLocation
\* runs at once) or "fetch" (suspended at the elevation request).
handleLocationMessage(m, dl, cache) ==
  LET c == locationFields(m)
  IN IF c = Null THEN [kind |-> "ignored"]
     ELSE IF moved(dl, c)
     THEN LET i == cacheIndex(cache, cacheKey(c.lat, c.lon))
          IN IF i # 0
             THEN [kind |-> "apply", c |-> c, ground |-> Some(cache[i].elevation),
                   agl |-> TRUE, looked |-> TRUE]
             ELSE [kind |-> "fetch", c |-> c, key |-> cacheKey(c.lat, c.lon)]
     ELSE IF truthy(dl.groundElevation)
     THEN [kind |-> "apply", c |-> c, ground |-> dl.groundElevation,
           agl |-> TRUE, looked |-> FALSE]
     ELSE [kind |-> "apply", c |-> c, ground |-> Null, agl |-> FALSE, looked |-> FALSE]

\* Ground elevations the lookup service can report, in metres.
Elevations == {0, 430}

\* What the elevation service can answer.
Outcomes ==
  {[kind |-> "results", elevation |-> e] : e \in Elevations}
    \cup {[kind |-> "empty"], [kind |-> "error"]}

\* handleLocationMessage after the await: the ground elevation of the position
\* it then sets.  h.closure is the droneLocation the handler closed over.
afterFetch(h, outcome) ==
  IF outcome.kind = "results" THEN Some(outcome.elevation)
  ELSE IF outcome.kind = "error" /\ h.closure # Null /\ truthy(h.closure.groundElevation)
  THEN h.closure.groundElevation
  ELSE Null

\* ------------------------------------------------ useElevation: throttle

\* _.throttle(func, THROTTLE_WAIT, {leading: true, trailing: true}), which is
\* debounce with maxWait = wait.  lastInvokeTime = Null stands for lodash's 0.
IdleThrottle ==
  [lastCallTime |-> Null, lastInvokeTime |-> Null, timer |-> Null, lastArgs |-> Null]

\* debounce's shouldInvoke(time)
shouldInvoke(th, t) ==
  \/ th.lastCallTime = Null
  \/ t - th.lastCallTime.val >= THROTTLE_WAIT
  \/ th.lastInvokeTime = Null
  \/ t - th.lastInvokeTime.val >= THROTTLE_WAIT

\* debounce's remainingWait(time)
remainingWait(th, t) ==
  LET timeWaiting == THROTTLE_WAIT - (t - th.lastCallTime.val)
  IN IF th.lastInvokeTime = Null THEN Min(timeWaiting, 0)
     ELSE Min(timeWaiting, THROTTLE_WAIT - (t - th.lastInvokeTime.val))

\* A call of the throttled function at time t: the new wrapper state and the
\* arguments func is invoked with (Null if it is not invoked now).
throttleCall(th, t, args) ==
  LET called == [th EXCEPT !.lastArgs = args, !.lastCallTime = Some(t)]
      invoked == [called EXCEPT !.lastArgs = Null, !.lastInvokeTime = Some(t),
                                !.timer = Some(t + THROTTLE_WAIT)]
  IN IF shouldInvoke(th, t)
     THEN [th |-> invoked, args |-> args]
     ELSE [th |-> IF th.timer = Null
                  THEN [called EXCEPT !.timer = Some(t + THROTTLE_WAIT)] ELSE called,
           args |-> Null]

\* debounce's timerExpired, at the instant t the timer is due.
timerExpired(th, t) ==
  IF shouldInvoke(th, t)
  THEN IF th.lastArgs # Null
       THEN [th |-> [th EXCEPT !.timer = Null, !.lastArgs = Null,
                               !.lastInvokeTime = Some(t)],
             args |-> th.lastArgs]
       ELSE [th |-> [th EXCEPT !.timer = Null], args |-> Null]
  ELSE [th |-> [th EXCEPT !.timer = Some(t + remainingWait(th, t))], args |-> Null]

\* The cleanup of the effect on [elevationCache]: fetchElevationRef.current.cancel()
throttleCancel(th) == IdleThrottle

\* The cache the throttled function closes over: the wrapper is created once,
\* in the first run of the effect, so it is the cache of the first render.
MountCache == <<>>

\* An identifier that no outstanding request carries.
freshId(pend) ==
  CHOOSE i \in 1..(Cardinality(pend) + 1) :
    /\ \A h \in pend : h.id # i
    /\ \A j \in 1..(i - 1) : \E h \in pend : h.id = j

\* The body of the throttled function up to its await, invoked with args at
\* time t: the requests outstanding afterwards and what it sets.
throttledFetch(args, t, pend, data, loading) ==
  IF args = Null THEN [pending |-> pend, elevationData |-> data, elevationLoading |-> loading]
  ELSE LET key == cacheKey(args.lat, args.lon)
           i == cacheIndex(MountCache, key)
       IN IF i # 0
          THEN [pending |-> pend,
                elevationData |-> Some([elevation |-> MountCache[i].elevation,
                                        lat |-> args.lat, lon |-> args.lon]),
                elevationLoading |-> FALSE]
          ELSE [pending |-> pend \cup {[id |-> freshId(pend), src |-> "map", seq |-> 0,
                                        c |-> [lat |-> args.lat, lon |-> args.lon,
                                               alt |-> 0, mslAlt |-> 0],
                                        key |-> key, at |-> t, closure |-> Null]},
                elevationData |-> data,
                elevationLoading |-> TRUE]

\* The console after mount.
InitConsole ==
  /\ peers = [p \in 1..MaxPeers |-> NoPeer]
  /\ nPeers = 0
  /\ peerRef = 0
  /\ dataListener = "none"
  /\ trackCount = 0
  /\ connectionStatus = "disconnected"
  /\ videoActive = FALSE
  /\ videoTracks = [regular |-> 0, thermal |-> 0, regularFeed |-> "none",
                    thermalFeed |-> "none"]
  /\ videoFlowing = FALSE
  /\ controlMode = "manual"
  /\ joystickConnected = FALSE
  /\ pollTimer = FALSE
  /\ currentPWMValues = NeutralPWM
  /\ lastSentPWMValues = NeutralPWM
  /\ lastButtonState = [l1 |-> FALSE, r1 |-> FALSE]
  /\ now = 0
  /\ lastHeartbeatTime = 0
  /\ heartbeatError = FALSE
  /\ checkDue = CHECK_INTERVAL
  /\ captureStatus = [capturing |-> FALSE, lastCapture |-> Null, error |-> Null]
  /\ captureTimer = FALSE
  /\ captureDue = 0
  /\ videoRecording = FALSE
  /\ videoRecordingStatus =
       [recording |-> FALSE, timestamp |-> Null,
        frames |-> [normal |-> Number(0), thermal |-> Number(0), thermal_data |-> Number(0)],
        error |-> Null]
  /\ thermalSettings = [detectRegions |-> TRUE, detectionMode |-> Word("over")]
  /\ droneLocation = Null
  /\ lastValidAGL = Null
  /\ pending = {}
  /\ locSeq = 0
  /\ knownGround = Null
  /\ throttle = IdleThrottle
  /\ elevationData = Null
  /\ elevationLoading = FALSE
  /\ targetLocation = Null
  /\ showMap = FALSE
  /\ surveillanceMode = FALSE
  /\ surveillancePoints = <<>>
  /\ isAreaFinalized = FALSE
  /\ ev = "init"
  /\ statusTrail = <<>>
  /\ sentNow = <<>>
  /\ lastMsg = Null
  /\ activeKeys = {}
  /\ keysDown = {}
  /\ lastFetch = Null
  /\ lastTrack = Null
  /\ videoRequestAt = Null
  /\ lastEmitted = [ch \in Channels |-> 0]

Init == InitConsole /\ elevationCache = <<>> /\ calc = Null

\* ------------------------------------------------ useWebRTC: handlers

\* handleOffer, on the socket's "offer" message.
HandleOffer(o) ==
  IF ~validOffer(o)
  THEN /\ Heard("offerRejected", o)
       /\ sentNow' = <<>>
       /\ UNCHANGED <<sessVars, joyVars, liveVars, lastEmitted>>
  ELSE /\ nPeers < MaxPeers
       /\ LET c == cleanupPeer(peers, peerRef, dataListener, trackCount)
              id == nPeers + 1
              ps == [c.peers EXCEPT ![id] =
                       [phase |-> "negotiating", listeners |-> OfferListeners]]
          IN /\ NoRender(ps, id, c.dataListener)
             /\ VideoEnv(ps, videoTracks)
       /\ trackCount' = 0
       /\ nPeers' = nPeers + 1
       /\ Heard("offer", o)
       /\ UNCHANGED <<videoTracks, lastButtonState, now>>

\* The peer's "signal" event: with trickle off, the one answer.
signalHandler(st) == "connecting"

PeerSignal(p) ==
  /\ peers[p].phase = "negotiating"
  /\ LET ps == [peers EXCEPT ![p].phase = "answered"]
         heard == "signal" \in peers[p].listeners
         st == IF heard THEN signalHandler(connectionStatus) ELSE connectionStatus
     IN /\ Render(st, videoActive, ps, peerRef, dataListener)
        /\ Obs("signal", IF heard THEN <<st>> ELSE <<>>)
  /\ UNCHANGED <<nPeers, trackCount, videoTracks, videoFlowing,
                 lastButtonState, now>>

\* The peer's "connect" event: the data channel is open.
connectHandler(st) == "connected"

PeerConnect(p) ==
  /\ peers[p].phase = "answered"
  /\ LET ps == [peers EXCEPT ![p].phase = "open"]
         heard == "connect" \in peers[p].listeners
         st == IF heard THEN connectHandler(connectionStatus) ELSE connectionStatus
     IN /\ Render(st, videoActive, ps, peerRef, dataListener)
        /\ Obs("connect", IF heard THEN <<st>> ELSE <<>>)
  /\ UNCHANGED <<nPeers, trackCount, videoTracks, videoFlowing,
                 lastButtonState, now>>

\* A "close" handler that only reports the state.
closeHandler_keeps(ps, pr, dl, tc) ==
  [status |-> "disconnected", peers |-> ps, peerRef |-> pr, dataListener |-> dl,
   trackCount |-> tc]

\* The "close" handler: back to disconnected, then cleanupPeer.
closeHandler(ps, pr, dl, tc) ==
  [status |-> "disconnected"] @@ cleanupPeer(ps, pr, dl, tc)

\* The "error" handler.
errorHandler(st) == "failed"

\* The peer closes (remote hang-up, transport loss): it destroys itself and
\* emits "close".  withError: the peer failed, and emits "error" first.
PeerEnds(p, withError) ==
  /\ peers[p].phase \in LivePhases
  /\ LET ps == [peers EXCEPT ![p].phase = "destroyed"]
         heardE == withError /\ "error" \in peers[p].listeners
         heardC == "close" \in peers[p].listeners
         st1 == IF heardE THEN errorHandler(connectionStatus) ELSE connectionStatus
         c == IF heardC THEN closeHandler(ps, peerRef, dataListener, trackCount)
              ELSE [status |-> st1, peers |-> ps, peerRef |-> peerRef,
                    dataListener |-> dataListener, trackCount |-> trackCount]
     IN /\ Render(c.status, videoActive, c.peers, c.peerRef, c.dataListener)
        /\ trackCount' = c.trackCount
        /\ VideoEnv(c.peers, videoTracks)
        /\ Obs(IF withError THEN "error" ELSE "close",
               (IF heardE THEN <<st1>> ELSE <<>>) \o (IF heardC THEN <<c.status>> ELSE <<>>))
  /\ UNCHANGED <<nPeers, videoTracks, lastButtonState, now>>

PeerClose(p) == PeerEnds(p, FALSE)
PeerError(p) == PeerEnds(p, TRUE)

\* A handleTrack that counts every track, whatever its kind.
handleTrack_anyKind(kind, feed, tc, vt, p) ==
  [trackCount |-> tc + 1,
   videoTracks |-> IF tc + 1 = 1 THEN [vt EXCEPT !.regular = p, !.regularFeed = feed]
                   ELSE IF tc + 1 = 2 THEN [vt EXCEPT !.thermal = p, !.thermalFeed = feed]
                   ELSE vt]

\* handleTrack: video tracks are classified by arrival order.
handleTrack(kind, feed, tc, vt, p) ==
  IF kind # "video" THEN [trackCount |-> tc, videoTracks |-> vt]
  ELSE [trackCount |-> tc + 1,
        videoTracks |-> IF tc + 1 = 1 THEN [vt EXCEPT !.regular = p, !.regularFeed = feed]
                        ELSE IF tc + 1 = 2
                        THEN [vt EXCEPT !.thermal = p, !.thermalFeed = feed]
                        ELSE vt]

\* The tracks the vehicle can add to a session: its regular camera (A), its
\* thermal camera (B), a further video track, and an audio track.
Feeds == {"A", "B", "C"}

PeerTrack(p, kind, feed) ==
  /\ peers[p].phase \in LivePhases
  /\ "track" \in peers[p].listeners
  /\ kind = "video" => trackCount < MaxTracks
  /\ LET h == handleTrack(kind, feed, trackCount, videoTracks, p)
     IN /\ trackCount' = h.trackCount
        /\ videoTracks' = h.videoTracks
        \* a new source object on the regular sink: nothing plays until it loads
        /\ videoFlowing' = (videoFlowing /\ h.videoTracks.regular = videoTracks.regular)
  /\ NoRender(peers, peerRef, dataListener)
  /\ ev' = IF kind = "video" THEN "track" ELSE "trackOther"
  /\ statusTrail' = <<>>
  /\ lastMsg' = Null
  /\ lastFetch' = Null
  /\ lastTrack' = [kind |-> kind, feed |-> feed, peer |-> p]
  /\ UNCHANGED <<nPeers, lastButtonState, now, decVars, locVars, elevVars, areaVars, keyVars,
                 videoRequestAt, calc>>

\* onloadedmetadata of the regular sink, then play() resolving.
VideoPlays ==
  /\ ~videoFlowing
  /\ videoTracks.regular # 0
  /\ peers[videoTracks.regular].phase \in {"answered", "open"}
  /\ videoFlowing' = TRUE
  /\ Render(connectionStatus, TRUE, peers, peerRef, dataListener)
  /\ Obs("videoPlays", <<>>)
  /\ UNCHANGED <<nPeers, trackCount, videoTracks, lastButtonState,
                 now>>

\* The frames stop arriving (the track ends or stalls); onended only logs.
VideoStops ==
  /\ videoFlowing
  /\ videoFlowing' = FALSE
  /\ NoRender(peers, peerRef, dataListener)
  /\ Obs("videoStops", <<>>)
  /\ UNCHANGED <<nPeers, trackCount, videoTracks, lastButtonState, now>>

\* ---------------------------------------------- useJoystick: handlers

\* toggleControlMode
ToggleControlMode ==
  /\ Commit(connectionStatus, videoActive,
            IF controlMode = "manual" THEN "auto" ELSE "manual",
            joystickConnected, currentPWMValues, FALSE, FALSE,
            peers, peerRef, dataListener, <<>>, FALSE)
  /\ Obs("toggleControlMode", <<>>)
  /\ UNCHANGED <<nPeers, trackCount, videoTracks, videoFlowing,
                 lastButtonState, now>>

\* checkGamepads, on gamepadconnected / gamepaddisconnected.
GamepadChange ==
  /\ Commit(connectionStatus, videoActive, controlMode, ~joystickConnected,
            currentPWMValues, FALSE, FALSE, peers, peerRef, dataListener, <<>>, FALSE)
  /\ Obs("gamepad", <<>>)
  /\ UNCHANGED <<nPeers, trackCount, videoTracks, videoFlowing,
                 lastButtonState, now>>

\* What the gamepad can read at a poll: axes 0..3 (as a 1-based tuple) and L1, R1.
Pad(a0, a1, a2, a3, l1, r1) == [axes |-> <<a0, a1, a2, a3>>, l1 |-> l1, r1 |-> r1]
GamepadSamples ==
  { Pad(0, 0, 0, 0, FALSE, FALSE),        \* sticks centred
    Pad(0, 0, 1000, 0, FALSE, FALSE),     \* roll full right
    Pad(0, -1000, 0, 0, FALSE, FALSE),    \* throttle stick full up
    Pad(0, 0, 0, 0, TRUE, FALSE),         \* L1 held
    Pad(0, 0, 0, 0, FALSE, TRUE) }        \* R1 held

\* The new ActuatorFrame computed by pollJoystick.
pollPWM(prev, g) ==
  LET rawYaw == g.axes[1]
      rawThrottle == -g.axes[2]
      rawRoll == g.axes[3]
      rawPitch == -g.axes[4]
  IN (ROLL :> mapToPWM(applyDeadzone(rawRoll, JOYSTICK_DEADZONE)))
     @@ (PITCH :> mapToPWM(applyDeadzone(rawPitch, JOYSTICK_DEADZONE)))
     @@ (THROTTLE :> throttleStep(prev[THROTTLE], rawThrottle))
     @@ (YAW :> mapToPWM(applyDeadzone(rawYaw, JOYSTICK_DEADZONE)))

\* pollJoystick, on the poll interval.
PollTick(g) ==
  /\ pollTimer
  /\ throttleStep(currentPWMValues[THROTTLE], -g.axes[2]) <= 1000 + MaxThrottleTicks * THROTTLE_CHANGE_RATE
  /\ LET res == sendCommand(connectionStatus, videoActive, peers, peerRef)
         up == g.l1 /\ ~lastButtonState.l1
         down == g.r1 /\ ~lastButtonState.r1
         tilt(c) == [cmd |-> c, ch |-> 0, val |-> 0, peer |-> peerRef, res |-> res]
         threw == res = "threw" /\ (up \/ down)
         out == IF up THEN <<tilt("CAMERA_TILT_UP")>>
                      \o (IF down /\ res # "threw" THEN <<tilt("CAMERA_TILT_DOWN")>> ELSE <<>>)
                ELSE IF down THEN <<tilt("CAMERA_TILT_DOWN")>> ELSE <<>>
     IN /\ Commit(connectionStatus, videoActive, controlMode, joystickConnected,
                  pollPWM(currentPWMValues, g), TRUE, FALSE,
                  peers, peerRef, dataListener, out, FALSE)
        /\ lastButtonState' = IF threw THEN lastButtonState ELSE [l1 |-> g.l1, r1 |-> g.r1]
  /\ Obs("poll", <<>>)
  /\ UNCHANGED <<nPeers, trackCount, videoTracks, videoFlowing, now>>

\* ------------------------------------------- WebRTCAdmin: data and timers

\* Positions the drone reports, in units of 1e-7 degree: a first fix, one
\* within the lookup threshold of it, and one beyond the threshold.
Positions ==
  { [lat |-> 467700000, lon |-> 235900000],
    [lat |-> 467700400, lon |-> 235900000],
    [lat |-> 467800000, lon |-> 235900000] }

LocationMsg(pos, relAlt, mslAlt) ==
  Msg("LOCATION", <<Numeral(pos.lat), Numeral(pos.lon), Numeral(relAlt), Numeral(mslAlt)>>)

LocationMessages == {LocationMsg(pos, 12, 450) : pos \in Positions}

HeartbeatMsg == Msg("heartbeat", <<>>)

\* The replies to a recording request.
videoReply(m) ==
  startsWith(m, "VIDEO_STARTED") \/ startsWith(m, "VIDEO_STOPPED")
    \/ startsWith(m, "VIDEO_ERROR")

\* Strings the data channel can deliver: well-formed messages of every kind,
\* and messages with an unknown head, too few or too many fields, or text where
\* a number belongs.
InboundMessages ==
  LET ts == Numeral(1700)
      n == Numeral(12)
      abc == Word("abc")
      home == CHOOSE pos \in Positions : \A q \in Positions : pos.lat <= q.lat
  IN { HeartbeatMsg,
       Msg("heartbeat", <<n>>),
       Msg("STATUS", <<n>>),
       Msg("LOCATION", <<>>),
       LocationMsg(home, 12, 450),
       Msg("LOCATION", <<n, n, n>>),
       Msg("LOCATION", <<n, n, n, n, n>>),
       Msg("LOCATION", <<abc, n, n, n>>),
       Msg("CAPTURE_SUCCESS", <<ts>>),
       Msg("CAPTURE_ERROR", <<abc>>),
       Msg("VIDEO_STARTED", <<ts>>),
       Msg("VIDEO_STARTED", <<ts, n>>),
       Msg("VIDEO_STOPPED", <<ts, n, n, n>>),
       Msg("VIDEO_STOPPED", <<ts, n>>),
       Msg("VIDEO_STOPPED", <<ts, abc, abc, abc>>),
       Msg("VIDEO_ERROR", <<abc>>),
       Msg("THERMAL_DETECT_REGIONS_STATUS", <<Word("enabled")>>),
       Msg("THERMAL_DETECT_REGIONS_STATUS", <<Word("disabled")>>),
       Msg("THERMAL_DETECT_REGIONS_STATUS", <<abc>>),
       Msg("THERMAL_DETECTION_MODE_STATUS", <<Word("under")>>),
       Msg("THERMAL_DETECTION_MODE_STATUS", <<Word("over")>>) }

\* handleDataMessage, on the "data" event of the peer the listener is bound to:
\* handleLocationMessage (up to its await), then handleOtherMessages.
DataMessage(p, m) ==
  /\ peers[p].phase = "open"
  /\ "data_main" \in peers[p].listeners
  /\ LET loc == handleLocationMessage(m, droneLocation, elevationCache)
         d == handleOtherMessages(m, decState)
         seq == locSeq + 1
     IN /\ loc.kind # "ignored" => locSeq < MaxLocMsgs
        /\ locSeq' = IF loc.kind # "ignored" THEN seq ELSE locSeq
        /\ pending' = IF loc.kind = "fetch"
                      THEN pending \cup {[id |-> freshId(pending), src |-> "telemetry",
                                          seq |-> seq, c |-> loc.c, key |-> loc.key,
                                          at |-> now, closure |-> droneLocation]}
                      ELSE pending
        /\ droneLocation' = IF loc.kind = "apply"
                            THEN position(loc.c, loc.ground, seq) ELSE droneLocation
        /\ lastValidAGL' = IF loc.kind = "apply" /\ loc.agl
                           THEN Some(loc.c.mslAlt - loc.ground.val) ELSE lastValidAGL
        /\ knownGround' = IF loc.kind = "apply" /\ loc.looked
                          THEN loc.ground ELSE knownGround
        /\ elevationCache' = elevationCache
        /\ captureStatus' = d.captureStatus
        /\ captureTimer' = d.captureTimer
        /\ captureDue' = d.captureDue
        /\ videoRecording' = d.videoRecording
        /\ videoRecordingStatus' = d.videoRecordingStatus
        /\ thermalSettings' = d.thermalSettings
        /\ Commit(connectionStatus, videoActive, controlMode, joystickConnected,
                  currentPWMValues, FALSE, d.hbSet, peers, peerRef, dataListener, <<>>,
                  loc.kind = "apply")
  /\ ev' = "data"
  /\ statusTrail' = <<>>
  /\ lastMsg' = m
  /\ lastFetch' = Null
  /\ lastTrack' = Null
  /\ videoRequestAt' = IF videoReply(m) THEN Null ELSE videoRequestAt
  /\ UNCHANGED <<nPeers, trackCount, videoTracks, videoFlowing, lastButtonState, now,
                 elevVars, areaVars, keyVars, calc>>

\* The elevation request h completes with outcome o, and the function that
\* awaited it runs to its end: handleLocationMessage for a telemetry request,
\* the throttled function of useElevation for a map request.  A changed
\* elevationCache re-runs the effect of useElevation, whose cleanup cancels
\* the throttle.
FetchDone(h, o) ==
  /\ h \in pending
  /\ LET hit == o.kind = "results"
         tele == h.src = "telemetry"
     IN /\ droneLocation' = IF tele THEN position(h.c, afterFetch(h, o), h.seq)
                            ELSE droneLocation
        /\ lastValidAGL' = IF tele /\ hit THEN Some(h.c.mslAlt - o.elevation)
                           ELSE lastValidAGL
        /\ elevationCache' =
             IF hit THEN limitCacheSize(cachePut(elevationCache, h.key, o.elevation),
                                        MAX_ELEVATION_CACHE_SIZE)
             ELSE elevationCache
        /\ knownGround' = IF tele /\ hit THEN Some(o.elevation) ELSE knownGround
        /\ elevationData' = IF ~tele /\ hit
                            THEN Some([elevation |-> o.elevation, lat |-> h.c.lat,
                                       lon |-> h.c.lon])
                            ELSE elevationData
        /\ elevationLoading' = IF tele THEN elevationLoading ELSE FALSE
        /\ throttle' = IF hit THEN throttleCancel(throttle) ELSE throttle
        /\ Commit(connectionStatus, videoActive, controlMode, joystickConnected,
                  currentPWMValues, FALSE, FALSE, peers, peerRef, dataListener, <<>>,
                  tele \/ hit)
  /\ pending' = pending \ {h}
  /\ ev' = "fetchDone"
  /\ statusTrail' = <<>>
  /\ lastMsg' = Null
  /\ lastFetch' = [h |-> h, outcome |-> o]
  /\ lastTrack' = Null
  /\ UNCHANGED <<decVars, locSeq, nPeers, trackCount, videoTracks, videoFlowing,
                 lastButtonState, now, targetLocation, areaVars, keyVars, videoRequestAt, calc>>

\* A liveness check that tolerates twice the silence.
heartbeatCheck_slow(va, t, last) ==
  IF va THEN FALSE ELSE t - last > 2 * HEARTBEAT_TIMEOUT

\* The body of the liveness-check interval: the new heartbeatError.
heartbeatCheck(va, t, last) ==
  IF va THEN FALSE ELSE t - last > HEARTBEAT_TIMEOUT

\* The liveness-check interval fires.
CheckTick ==
  /\ now = checkDue
  /\ heartbeatError' = heartbeatCheck(videoActive, now, lastHeartbeatTime)
  /\ checkDue' = now + CHECK_INTERVAL
  /\ Obs("checkTick", <<>>)
  /\ sentNow' = <<>>
  /\ UNCHANGED <<sessVars, joyVars, now, lastHeartbeatTime, lastEmitted>>

\* 100 ms pass; a timer that is due fires first.
Tick(limit) ==
  /\ now < limit
  /\ now < checkDue
  /\ captureDue # 0 => now < captureDue
  /\ throttle.timer # Null => now < throttle.timer.val
  /\ now' = now + 1
  /\ Obs("advance", <<>>)
  /\ sentNow' = <<>>
  /\ UNCHANGED <<sessVars, joyVars, lastHeartbeatTime, heartbeatError, checkDue,
                 lastEmitted>>

Advance == Tick(MaxTime)

\* ------------------------------------------------ WebRTCAdmin: map and area

\* Bookkeeping of a handler of the map panel: it touches neither the session,
\* the joystick nor the liveness state, and it sends nothing.
Quiet(name) ==
  /\ ev' = name
  /\ statusTrail' = <<>>
  /\ sentNow' = <<>>
  /\ lastMsg' = Null
  /\ lastFetch' = Null
  /\ lastTrack' = Null
  /\ UNCHANGED <<sessVars, joyVars, liveVars, decVars, keyVars, videoRequestAt, lastEmitted,
                 calc>>

\* Places the operator can click on the map.
MapPoints ==
  { [lat |-> 467700000, lon |-> 235900000],
    [lat |-> 467800000, lon |-> 235900000] }

\* handleMapClick: a vertex of the area being drawn, or a new target with an
\* elevation lookup through the throttle.
MapClick(pt) ==
  /\ showMap
  /\ IF connectionStatus = "connected" \/ videoActive
     THEN IF surveillanceMode /\ ~isAreaFinalized
          THEN /\ Len(surveillancePoints) < MaxPoints
               /\ surveillancePoints' = Append(surveillancePoints, pt)
               /\ UNCHANGED <<elevVars, pending>>
          ELSE LET r == throttleCall(throttle, now, pt)
                   f == throttledFetch(r.args, now, pending, elevationData,
                                       elevationLoading)
               IN /\ Cardinality(pending) < MaxPending
                  /\ targetLocation' = pt
                  /\ throttle' = r.th
                  /\ pending' = f.pending
                  /\ elevationData' = f.elevationData
                  /\ elevationLoading' = f.elevationLoading
                  /\ UNCHANGED surveillancePoints
     ELSE UNCHANGED <<elevVars, pending, surveillancePoints>>
  /\ Quiet("mapClick")
  /\ UNCHANGED <<showMap, surveillanceMode, isAreaFinalized, droneLocation,
                 elevationCache, lastValidAGL, locSeq, knownGround>>

\* The throttle's timer expires: the trailing call, if one is waiting.
ThrottleTimer ==
  /\ throttle.timer # Null
  /\ now = throttle.timer.val
  /\ LET r == timerExpired(throttle, now)
         f == throttledFetch(r.args, now, pending, elevationData, elevationLoading)
     IN /\ throttle' = r.th
        /\ pending' = f.pending
        /\ elevationData' = f.elevationData
        /\ elevationLoading' = f.elevationLoading
  /\ Quiet("throttleTimer")
  /\ UNCHANGED <<targetLocation, areaVars, keyVars, droneLocation, elevationCache, lastValidAGL,
                 locSeq, knownGround>>

\* The map toggle, and the effect on [showMap, targetLocation] that resets the
\* area when the map is hidden.
ToggleShowMap ==
  /\ showMap' = ~showMap
  /\ IF showMap
     THEN /\ elevationData' = IF targetLocation = Null THEN Null ELSE elevationData
          /\ surveillanceMode' = FALSE
          /\ surveillancePoints' = <<>>
          /\ isAreaFinalized' = FALSE
     ELSE UNCHANGED <<elevationData, surveillanceMode, surveillancePoints,
                      isAreaFinalized>>
  /\ Quiet("toggleShowMap")
  /\ UNCHANGED <<throttle, elevationLoading, targetLocation, locVars>>

\* toggleSurveillanceMode
ToggleSurveillanceMode ==
  /\ showMap
  /\ surveillanceMode' = ~surveillanceMode
  /\ surveillancePoints' = IF surveillanceMode THEN <<>> ELSE surveillancePoints
  /\ isAreaFinalized' = IF surveillanceMode THEN FALSE ELSE isAreaFinalized
  /\ Quiet("toggleSurveillanceMode")
  /\ UNCHANGED <<showMap, elevVars, locVars>>

\* A finalizeArea that accepts any area.
finalizeArea_any(points, finalized) == TRUE

\* finalizeArea: the new isAreaFinalized.
finalizeArea(points, finalized) ==
  IF Len(points) < 3 THEN finalized ELSE TRUE

FinalizeArea ==
  /\ showMap
  /\ surveillanceMode
  /\ isAreaFinalized' = finalizeArea(surveillancePoints, isAreaFinalized)
  /\ Quiet("finalizeArea")
  /\ UNCHANGED <<showMap, surveillanceMode, surveillancePoints, elevVars, locVars>>

\* resetArea
ResetArea ==
  /\ showMap
  /\ surveillanceMode
  /\ surveillancePoints' = <<>>
  /\ isAreaFinalized' = FALSE
  /\ Quiet("resetArea")
  /\ UNCHANGED <<showMap, surveillanceMode, elevVars, locVars>>

\* --------------------------------------- WebRTCAdmin: capture and recording

\* An error text set by the console itself.
ErrorText(s) == [text |-> <<Word(s)>>]

\* A command the operator's button hands to sendCommand.
ButtonCmd(name, res) == [cmd |-> name, ch |-> 0, val |-> 0, peer |-> peerRef, res |-> res]

\* Bookkeeping of a button handler that may send a command: it sets none of
\* the state the effects depend on.
Pressed(name, out) ==
  /\ ev' = name
  /\ statusTrail' = <<>>
  /\ sentNow' = out
  /\ lastMsg' = Null
  /\ lastFetch' = Null
  /\ lastTrack' = Null
  /\ UNCHANGED <<sessVars, joyVars, liveVars, locVars, elevVars, areaVars, keyVars, thermalSettings,
                 lastEmitted, calc>>

\* handleCaptureImages, behind the capture button (enabled while the video is
\* active and no capture is in progress).
HandleCaptureImages ==
  /\ videoActive
  /\ ~captureStatus.capturing
  /\ IF peerRef = 0 \/ connectionStatus # "connected"
     THEN /\ captureStatus' = [capturing |-> FALSE, lastCapture |-> Null,
                               error |-> ErrorText("Not connected to drone")]
          /\ UNCHANGED <<captureTimer, captureDue>>
          /\ Pressed("capture", <<>>)
     ELSE /\ captureStatus' = [capturing |-> TRUE, lastCapture |-> Null, error |-> Null]
          /\ captureTimer' = TRUE
          /\ captureDue' = now + CAPTURE_TIMEOUT
          /\ Pressed("capture",
                     <<ButtonCmd("CAPTURE_IMAGES",
                                 sendCommand(connectionStatus, videoActive, peers, peerRef))>>)
  /\ UNCHANGED <<videoRecording, videoRecordingStatus, videoRequestAt>>

\* A safeguard callback that leaves the status alone.
safeguardTimeout_keeps(prev) == prev

\* The updater the safeguard timeout passes to setCaptureStatus.
safeguardTimeout(prev) ==
  IF prev.capturing
  THEN [capturing |-> FALSE, lastCapture |-> Null,
        error |-> ErrorText("Capture timeout - no response from drone")]
  ELSE prev

\* The safeguard timeout fires.
CaptureTimeout ==
  /\ captureDue # 0
  /\ now = captureDue
  /\ captureStatus' = safeguardTimeout(captureStatus)
  /\ captureDue' = 0
  /\ Pressed("captureTimeout", <<>>)
  /\ UNCHANGED <<captureTimer, videoRecording, videoRecordingStatus, videoRequestAt>>

\* handleVideoRecording, behind the start button of the recording panel and
\* the stop button of the status bar.
HandleVideoRecording ==
  /\ videoRecording \/ videoActive
  /\ IF peerRef = 0 \/ connectionStatus # "connected"
     THEN /\ videoRecordingStatus' =
               [videoRecordingStatus EXCEPT !.error = ErrorText("Not connected to drone")]
          /\ UNCHANGED videoRequestAt
          /\ Pressed("record", <<>>)
     ELSE LET res == sendCommand(connectionStatus, videoActive, peers, peerRef)
          IN /\ videoRecordingStatus' =
                  IF videoRecording THEN videoRecordingStatus
                  ELSE IF res = "threw" THEN videoRecordingStatus
                  ELSE [videoRecordingStatus EXCEPT !.recording = TRUE, !.error = Null]
             /\ videoRequestAt' = IF res = "sent" THEN Some(now) ELSE videoRequestAt
             /\ Pressed("record",
                        <<ButtonCmd(IF videoRecording THEN "VIDEO_STOP" ELSE "VIDEO_START",
                                    res)>>)
  /\ UNCHANGED <<captureStatus, captureTimer, captureDue, videoRecording>>

\* The vehicle's replies to a capture request and to a recording request.
CaptureReplies ==
  { Msg("CAPTURE_SUCCESS", <<Numeral(1700)>>), Msg("CAPTURE_ERROR", <<Word("abc")>>) }

RecordingReplies ==
  { Msg("VIDEO_STARTED", <<Numeral(1700)>>),
    Msg("VIDEO_STOPPED", <<Numeral(1700), Numeral(12), Numeral(12), Numeral(12)>>),
    Msg("VIDEO_ERROR", <<Word("abc")>>) }

\* ------------------------------------------------- WebRTCAdmin: keyboard

\* Three of the keys of MANUAL_CONTROLS, and the command of a key.
Keys == {"w", "d", "ArrowUp"}
keyCommand(k) ==
  CASE k = "w" -> "MANUAL_THROTTLE_UP"
    [] k = "d" -> "MANUAL_YAW_RIGHT"
    [] k = "ArrowUp" -> "MANUAL_PITCH_FORWARD"

\* What the keyboard handlers do with a command: peer.send when there is a
\* peer and the state is connected or the video is active.
keySend(name) ==
  LET res == sendCommand(connectionStatus, videoActive, peers, peerRef)
  IN IF res = "dropped" THEN <<>> ELSE <<ButtonCmd(name, res)>>

\* Bookkeeping of a keyboard handler for key k.
Typed(name, k) ==
  /\ ev' = name
  /\ statusTrail' = <<>>
  /\ lastMsg' = [key |-> k]
  /\ lastFetch' = Null
  /\ lastTrack' = Null
  /\ UNCHANGED <<sessVars, joyVars, liveVars, decVars, locVars, elevVars, areaVars,
                 videoRequestAt, lastEmitted, calc>>

\* handleKeyUp: the keys marked active afterwards, and whether the STOP
\* command is handed to the sender.
handleKeyUp(cm, k, active) ==
  IF cm # "manual" THEN [active |-> active, stop |-> FALSE]
  ELSE [active |-> active \ {k}, stop |-> TRUE]

\* handleKeyDown for a key the operator presses.
KeyDown(k) ==
  /\ k \notin keysDown
  /\ keysDown' = keysDown \cup {k}
  /\ IF controlMode # "manual" \/ k \in activeKeys
     THEN /\ UNCHANGED activeKeys
          /\ sentNow' = <<>>
     ELSE /\ activeKeys' = activeKeys \cup {k}
          /\ sentNow' = keySend(keyCommand(k))
  /\ Typed("keyDown", k)

\* handleKeyUp for a key the operator releases.
KeyUp(k) ==
  /\ k \in keysDown
  /\ keysDown' = keysDown \ {k}
  /\ LET h == handleKeyUp(controlMode, k, activeKeys)
     IN /\ activeKeys' = h.active
        /\ sentNow' = IF h.stop THEN keySend(keyCommand(k) \o "_STOP") ELSE <<>>
  /\ Typed("keyUp", k)

\* ------------------------------------------------------ specifications

ValidOffer == [null |-> FALSE, sdp |-> TRUE, type |-> "offer"]

\* The peer session and its media, without the joystick and the clock.
NextSession ==
  \/ \E o \in Offers : HandleOffer(o)
  \/ \E p \in 1..MaxPeers : PeerSignal(p)
  \/ \E p \in 1..MaxPeers : PeerConnect(p)
  \/ \E p \in 1..MaxPeers : PeerClose(p)
  \/ \E p \in 1..MaxPeers : PeerError(p)
  \/ \E p \in 1..MaxPeers, k \in {"video", "audio"}, f \in Feeds : PeerTrack(p, k, f)
  \/ VideoPlays
  \/ VideoStops

Spec == Init /\ [][NextSession]_vars

\* The joystick sampler over the session events that change what it reads.
NextJoy ==
  \/ HandleOffer(ValidOffer)
  \/ \E p \in 1..MaxPeers : PeerSignal(p)
  \/ \E p \in 1..MaxPeers : PeerConnect(p)
  \/ \E p \in 1..MaxPeers : PeerClose(p)
  \/ \E p \in 1..MaxPeers : PeerError(p)
  \/ \E p \in 1..MaxPeers : PeerTrack(p, "video", "A")
  \/ VideoPlays
  \/ ToggleControlMode
  \/ GamepadChange
  \/ \E g \in GamepadSamples : PollTick(g)

SpecJoy == Init /\ [][NextJoy]_vars

\* The liveness clock: a session is set up at the start, then time passes while
\* heartbeats arrive, the video starts and stops, and the session may close.
NextLive ==
  \/ now = 0 /\ HandleOffer(ValidOffer)
  \/ now = 0 /\ \E p \in 1..MaxPeers : PeerSignal(p)
  \/ now = 0 /\ \E p \in 1..MaxPeers : PeerConnect(p)
  \/ now = 0 /\ \E p \in 1..MaxPeers : PeerTrack(p, "video", "A")
  \/ \E p \in 1..MaxPeers : PeerClose(p)
  \/ \E p \in 1..MaxPeers : DataMessage(p, HeartbeatMsg)
  \/ VideoPlays
  \/ VideoStops
  \/ CheckTick
  \/ Advance

SpecLive == Init /\ [][NextLive]_vars

\* The inbound decoder over an open session, while the elevation service
\* has not answered yet.
NextDecode ==
  \/ HandleOffer(ValidOffer)
  \/ \E p \in 1..MaxPeers : PeerSignal(p)
  \/ \E p \in 1..MaxPeers : PeerConnect(p)
  \/ \E p \in 1..MaxPeers, m \in InboundMessages : DataMessage(p, m)

SpecDecode == Init /\ [][NextDecode]_vars

\* Position telemetry and the elevation lookups it starts.
NextLoc ==
  \/ HandleOffer(ValidOffer)
  \/ \E p \in 1..MaxPeers : PeerSignal(p)
  \/ \E p \in 1..MaxPeers : PeerConnect(p)
  \/ \E p \in 1..MaxPeers : PeerClose(p)
  \/ \E p \in 1..MaxPeers, m \in LocationMessages : DataMessage(p, m)
  \/ \E h \in pending, o \in Outcomes : FetchDone(h, o)

SpecLoc == Init /\ [][NextLoc]_vars

\* The cache as earlier lookups left it: the oldest entry is the place the
\* operator clicks on again, the others are places not visited in this run.
FilledCache ==
  [i \in 1..Prefilled |->
     [key |-> IF i = 1 THEN cacheKey(467700000, 235900000) ELSE <<10 * i, 0>>,
      elevation |-> 100]]

\* The drone reports a place that is not in the cache.
NearFix == LocationMsg([lat |-> 467700400, lon |-> 235900000], 12, 450)

InitCache == InitConsole /\ elevationCache = FilledCache /\ calc = Null

\* The operator opens the map once the session is connected.
OpenMap == connectionStatus = "connected" /\ ~showMap /\ ToggleShowMap

\* Lookups from map clicks and from telemetry into a cache that is nearly
\* full, at one instant.
NextCache ==
  \/ nPeers = 0 /\ HandleOffer(ValidOffer)
  \/ \E p \in 1..MaxPeers : PeerSignal(p)
  \/ \E p \in 1..MaxPeers : PeerConnect(p)
  \/ OpenMap
  \/ \E pt \in MapPoints : MapClick(pt)
  \/ \E p \in 1..MaxPeers : DataMessage(p, NearFix)
  \/ \E h \in pending, o \in Outcomes : FetchDone(h, o)

SpecCache == InitCache /\ [][NextCache]_vars

\* Lookups from map clicks over an open session, with the clock of the
\* throttle.
NextElev ==
  \/ now = 0 /\ nPeers = 0 /\ HandleOffer(ValidOffer)
  \/ now = 0 /\ \E p \in 1..MaxPeers : PeerSignal(p)
  \/ now = 0 /\ \E p \in 1..MaxPeers : PeerConnect(p)
  \/ now = 0 /\ OpenMap
  \/ \E pt \in MapPoints : MapClick(pt)
  \/ ThrottleTimer
  \/ \E h \in pending, o \in Outcomes : FetchDone(h, o)
  \/ CheckTick
  \/ Tick(MaxElevTime)

SpecElev == Init /\ [][NextElev]_vars

\* Capture requests, the vehicle's replies and the safeguard timeout over a
\* session with video, which may close.
NextCapture ==
  \/ now = 0 /\ nPeers = 0 /\ HandleOffer(ValidOffer)
  \/ now = 0 /\ \E p \in 1..MaxPeers : PeerSignal(p)
  \/ now = 0 /\ \E p \in 1..MaxPeers : PeerConnect(p)
  \/ now = 0 /\ \E p \in 1..MaxPeers : PeerTrack(p, "video", "A")
  \/ now = 0 /\ VideoPlays
  \/ \E p \in 1..MaxPeers : PeerClose(p)
  \/ HandleCaptureImages
  \/ CaptureTimeout
  \/ \E p \in 1..MaxPeers, m \in CaptureReplies : DataMessage(p, m)
  \/ CheckTick
  \/ Tick(MaxAckTime)

SpecCapture == Init /\ [][NextCapture]_vars

\* Recording requests and the vehicle's replies over a session with video.
NextRecord ==
  \/ now = 0 /\ nPeers = 0 /\ HandleOffer(ValidOffer)
  \/ now = 0 /\ \E p \in 1..MaxPeers : PeerSignal(p)
  \/ now = 0 /\ \E p \in 1..MaxPeers : PeerConnect(p)
  \/ now = 0 /\ \E p \in 1..MaxPeers : PeerTrack(p, "video", "A")
  \/ now = 0 /\ VideoPlays
  \/ \E p \in 1..MaxPeers : PeerClose(p)
  \/ HandleVideoRecording
  \/ \E p \in 1..MaxPeers, m \in RecordingReplies : DataMessage(p, m)
  \/ CheckTick
  \/ Tick(MaxAckTime)

SpecRecord == Init /\ [][NextRecord]_vars

\* The survey area drawn on the map, over a session that may close.
NextArea ==
  \/ nPeers = 0 /\ HandleOffer(ValidOffer)
  \/ \E p \in 1..MaxPeers : PeerSignal(p)
  \/ \E p \in 1..MaxPeers : PeerConnect(p)
  \/ \E p \in 1..MaxPeers : PeerClose(p)
  \/ ToggleShowMap
  \/ ToggleSurveillanceMode
  \/ \E pt \in MapPoints : MapClick(pt)
  \/ FinalizeArea
  \/ ResetArea

SpecArea == Init /\ [][NextArea]_vars

\* Stick positions in [-1, 1] and dead zones in [0, 1), in thousandths.
AxisValues == -1000..1000
Deadzones == {0, 1, JOYSTICK_DEADZONE, 500, 999}

\* applyDeadzone on its own: an input is chosen, then the function is applied.
InitDeadzone ==
  /\ InitConsole
  /\ elevationCache = <<>>
  /\ calc \in [value : AxisValues, deadzone : Deadzones, done : {FALSE},
               out : {[num |-> 0, den |-> 1]}]

ApplyDeadzone ==
  /\ ~calc.done
  /\ calc' = [calc EXCEPT !.done = TRUE, !.out = applyDeadzone(calc.value, calc.deadzone)]
  /\ UNCHANGED <<consoleVars, obsVars>>

SpecDeadzone == InitDeadzone /\ [][ApplyDeadzone]_vars

\* Throttle stick positions held by the pilot, in thousandths: full, a tenth
\* and just beyond the dead zone, each way.
HeldAxis == {-1000, -100, -(JOYSTICK_DEADZONE + 10), JOYSTICK_DEADZONE + 10, 100, 1000}

\* The throttle under poll ticks with the stick held still, from the neutral
\* frame and from mid range.
InitHold ==
  /\ InitConsole
  /\ elevationCache = <<>>
  /\ calc \in [raw : HeldAxis, pwm : {NeutralPWM[THROTTLE], 1500}, ticks : {0}]

HoldTick ==
  /\ calc.ticks < MaxHoldTicks
  /\ calc' = [calc EXCEPT !.pwm = throttleStep(calc.pwm, calc.raw), !.ticks = @ + 1]
  /\ UNCHANGED <<consoleVars, obsVars>>

SpecHold == InitHold /\ [][HoldTick]_vars

\* Heartbeats and position telemetry on the liveness clock, over a session
\* that is set up at any instant.
NextSignal ==
  \/ nPeers = 0 /\ HandleOffer(ValidOffer)
  \/ \E p \in 1..MaxPeers : PeerSignal(p)
  \/ \E p \in 1..MaxPeers : PeerConnect(p)
  \/ \E p \in 1..MaxPeers, m \in {HeartbeatMsg, NearFix} : DataMessage(p, m)
  \/ CheckTick
  \/ Tick(MaxElevTime)

SpecSignal == Init /\ [][NextSignal]_vars

\* The keyboard in a session that is set up and stays up: the operator presses
\* keys once the session is connected, and toggles the control mode.
NextKeys ==
  \/ nPeers = 0 /\ HandleOffer(ValidOffer)
  \/ \E p \in 1..MaxPeers : PeerSignal(p)
  \/ \E p \in 1..MaxPeers : PeerConnect(p)
  \/ ToggleControlMode
  \/ \E k \in Keys : connectionStatus = "connected" /\ KeyDown(k)
  \/ \E k \in Keys : KeyUp(k)

SpecKeys == Init /\ [][NextKeys]_vars

\* ---------------------------------------------------------------- claims

LivePeers == {p \in 1..MaxPeers : peers[p].phase \in LivePhases}

\* C1: after any sequence of valid offers at most one peer session exists; every
\* peer but the referenced one is destroyed and has no listener left; the
\* referenced one is the newest; right after a valid offer the track counter is
\* 0, no data listener is bound and the new peer is negotiating as non-initiator.
C1_SingleSession ==
  /\ Cardinality(LivePeers) <= 1
  /\ \A p \in 1..MaxPeers :
       (p # peerRef /\ peers[p].phase # "none")
         => peers[p].phase = "destroyed" /\ peers[p].listeners = {}
  /\ peerRef # 0 => peerRef = nPeers /\ peers[peerRef].phase \in LivePhases
  /\ ev = "offer" => /\ trackCount = 0
                     /\ dataListener = "none"
                     /\ peerRef = nPeers
                     /\ peers[peerRef] = [phase |-> "negotiating",
                                          listeners |-> OfferListeners]

\* A second offer has superseded a session that was connected.
C1_Witness ==
  /\ ev = "offer"
  /\ nPeers = 2
  /\ connectionStatus = "connected"
  /\ peers[1].phase = "destroyed"

\* C2: an error sets Failed and then Idle, a close sets Idle; either way no
\* peer session is retained, and while none is referenced the console is Idle
\* with nothing left alive; only a valid offer creates a session again.
C2_Idle ==
  /\ ev = "error" => statusTrail = <<"failed", "disconnected">>
  /\ ev = "close" => statusTrail = <<"disconnected">>
  /\ ev \in {"error", "close"} => connectionStatus = "disconnected" /\ peerRef = 0
  /\ peerRef = 0 => connectionStatus = "disconnected" /\ LivePeers = {}

C2_OnlyOffers == (peerRef' # peerRef /\ peerRef' # 0) => ev' = "offer"

\* C2, in full: the console is Idle after every error or close, and only an
\* offer makes it reference a session again.
C2_ErrorCloseIdle == []C2_Idle /\ [][C2_OnlyOffers]_vars

\* A connected session has failed and has been torn down.
C2_Witness ==
  /\ ev = "error"
  /\ statusTrail = <<"failed", "disconnected">>
  /\ peerRef = 0
  /\ nPeers = 1

\* C3: with no video active, the Degraded indicator is up from the first
\* liveness-check tick after 5 s without a heartbeat, so at the latest 300 ms after
\* the threshold was exceeded (a tick is never more than 300 ms away); a heartbeat
\* clears it by the next tick; neither the tick nor the heartbeat touches the
\* peer session.
C3_Degraded ==
  /\ checkDue - now \in 0..CHECK_INTERVAL
  /\ (~videoActive /\ now - lastHeartbeatTime >= HEARTBEAT_TIMEOUT + CHECK_INTERVAL)
       => heartbeatError
  /\ (ev = "checkTick" /\ ~videoActive /\ now - lastHeartbeatTime > HEARTBEAT_TIMEOUT)
       => heartbeatError
  /\ (ev = "checkTick" /\ now - lastHeartbeatTime <= HEARTBEAT_TIMEOUT)
       => ~heartbeatError
  /\ (now - lastHeartbeatTime > CHECK_INTERVAL
        /\ now - lastHeartbeatTime <= HEARTBEAT_TIMEOUT) => ~heartbeatError

C3_KeepsSession ==
  (ev' = "checkTick" \/ (ev' = "data" /\ lastMsg' = HeartbeatMsg))
    => UNCHANGED <<peers, nPeers, peerRef, dataListener, connectionStatus>>

\* C3, in full: the indicator follows the heartbeat age at every tick, and the
\* tick and the heartbeat leave the session alone.
C3_HeartbeatLiveness == []C3_Degraded /\ [][C3_KeepsSession]_vars

\* A connected session whose last heartbeat is more than 5 s old has just been
\* marked Degraded by a tick.
C3_Witness ==
  /\ ev = "checkTick"
  /\ heartbeatError
  /\ ~videoActive
  /\ connectionStatus = "connected"
  /\ peerRef # 0
  /\ lastHeartbeatTime > 0
  /\ now - lastHeartbeatTime > HEARTBEAT_TIMEOUT

\* C4: a liveness-check tick that finds the video not flowing and the last
\* heartbeat more than 5 s old raises the Degraded indicator, also when the video
\* was flowing earlier in the session.
C4_StaleAfterVideo ==
  (ev = "checkTick" /\ ~videoFlowing /\ now - lastHeartbeatTime > HEARTBEAT_TIMEOUT)
    => heartbeatError

C7_NeutralOnDisconnect ==
  ev \in {"close", "error"} => currentPWMValues = NeutralPWM

\* C8: every MANUAL_PWM value handed to the data channel differs by at least 5
\* from the value last handed to it for the same channel.
C8_Gated ==
  \A i \in 1..Len(sentNow') :
    (sentNow'[i].cmd = "MANUAL_PWM" /\ sentNow'[i].res = "sent")
      => Abs(sentNow'[i].val - lastEmitted[sentNow'[i].ch]) >= PWM_GATE

\* C8, over every step: consecutive MANUAL_PWM values of a channel differ by 5
\* or more.
C8_ChangeGated == [][C8_Gated]_vars

\* The inbound grammar: a field that is a number, and a message whose head is
\* known and whose fields have the count and the types the grammar gives.
numeric(t) == t.hasNum /\ t.word = ""

wellFormed(m) ==
  LET f == m.fields
      n == Len(m.fields)
  IN CASE m.head = "LOCATION" -> n = 4 /\ \A i \in 1..n : numeric(f[i])
       [] m.head = "CAPTURE_SUCCESS" -> n = 1
       [] m.head = "CAPTURE_ERROR" -> n >= 1
       [] m.head = "VIDEO_STARTED" -> n \in {1, 2} /\ (n = 2 => numeric(f[2]))
       [] m.head = "VIDEO_STOPPED" -> n = 4 /\ \A i \in 2..n : numeric(f[i])
       [] m.head = "VIDEO_ERROR" -> n >= 1
       [] m.head = "THERMAL_DETECT_REGIONS_STATUS" ->
            n = 1 /\ f[1] \in {Word("enabled"), Word("disabled")}
       [] m.head = "THERMAL_DETECTION_MODE_STATUS" -> n = 1
       [] OTHER -> m = HeartbeatMsg

\* C5: a data message that is not well-formed (unknown head, or a known head
\* with a wrong field count or a field of the wrong type) leaves the whole
\* console state as it was.
C5_Dropped ==
  (ev' = "data" /\ ~wellFormed(lastMsg')) => UNCHANGED consoleVars

\* C5, over every step: no malformed message changes the console state.
C5_DefensiveDecode == [][C5_Dropped]_vars

\* C9: once the handler of a valid LOCATION message has run, the displayed
\* position is the one of that message, whatever the elevation request does.
C9_PositionShown ==
  (ev = "data" /\ locationFields(lastMsg) # Null)
    => /\ droneLocation # Null
       /\ droneLocation.seq = locSeq
       /\ droneLocation.lat = locationFields(lastMsg).lat
       /\ droneLocation.lon = locationFields(lastMsg).lon

\* C10: when an elevation request ends in an error or without results, the
\* position of its message is set with the ground elevation known last, and the
\* height above ground is absent only if none was ever known.
C10_FallbackGround ==
  (ev = "fetchDone" /\ lastFetch.outcome.kind \in {"empty", "error"})
    => /\ droneLocation.seq = lastFetch.h.seq
       /\ droneLocation.lat = lastFetch.h.c.lat
       /\ droneLocation.lon = lastFetch.h.c.lon
       /\ knownGround # Null =>
            /\ droneLocation.groundElevation = knownGround
            /\ droneLocation.heightAboveGround =
                 Some(droneLocation.mslAlt - knownGround.val)
       /\ droneLocation.heightAboveGround = Null => knownGround = Null

\* C11: the elevation cache never holds more than MAX_ELEVATION_CACHE_SIZE
\* entries, whichever path inserted the last one.
C11_CacheBounded == Len(elevationCache) <= MAX_ELEVATION_CACHE_SIZE

\* A full cache from which the oldest entry was dropped by an insertion.
C11_Witness ==
  /\ ev = "fetchDone"
  /\ Len(elevationCache) = MAX_ELEVATION_CACHE_SIZE
  /\ elevationCache[1].key # FilledCache[1].key
  /\ lastFetch.outcome.kind = "results"

\* C12: two elevation requests for the same cache key, from map clicks or
\* from LOCATION telemetry, are issued at least one throttle window apart.
C12_OnePerWindow ==
  \A h1, h2 \in pending :
    (h1 # h2 /\ h1.key = h2.key) => Abs(h1.at - h2.at) >= THROTTLE_WAIT

\* C13: a lookup that waits for the trailing edge of the throttle is not
\* discarded: after every step it still waits (possibly replaced by a later
\* click) or a request was issued.
C13_TrailingKept ==
  [][throttle.lastArgs # Null =>
       (throttle'.lastArgs # Null \/ pending' \ pending # {})]_vars

\* Cache entries written by a lookup of this run (the earlier ones hold the
\* elevation of FilledCache).
fetchedNow(cache) ==
  {i \in 1..Len(cache) : cache[i].elevation # FilledCache[Prefilled].elevation}

\* C14: an entry that was fetched again counts as newly inserted: it is not
\* evicted while an entry inserted before that fetch stays in the cache.
C14_RefetchedIsNewest ==
  [][\A i \in fetchedNow(elevationCache) :
       cacheIndex(elevationCache', elevationCache[i].key) = 0
         => fetchedNow(elevationCache') = 1..Len(elevationCache')]_vars

\* While a capture is in progress its safeguard timeout is pending and at most
\* CAPTURE_TIMEOUT away.
C15_TimerLive ==
  captureStatus.capturing =>
    (captureDue # 0 /\ now <= captureDue /\ captureDue <= now + CAPTURE_TIMEOUT)

\* C15: a capture in progress always has its 10 s timeout pending, so the
\* capturing flag is never true for longer than 10 s after a request; the
\* timeout resets the flag with the timeout error, and a reply, on time or
\* late, only ever resets it.
C15_CaptureTimeout ==
  /\ []C15_TimerLive
  /\ [][(ev' = "captureTimeout" /\ captureStatus.capturing)
          => captureStatus' =
               [capturing |-> FALSE, lastCapture |-> Null,
                error |-> ErrorText("Capture timeout - no response from drone")]]_vars
  /\ [][(~captureStatus.capturing /\ captureStatus'.capturing)
          => (ev' = "capture" /\ captureDue' = now + CAPTURE_TIMEOUT)]_vars

\* The timeout has reset a capture that got no reply, 10 s after the request.
C15_Witness ==
  /\ ev = "captureTimeout"
  /\ now = CAPTURE_TIMEOUT
  /\ ~captureStatus.capturing
  /\ captureStatus.error = ErrorText("Capture timeout - no response from drone")

\* C16: a recording request that got no reply for 10 s has been reset with an
\* error shown to the operator.
C16_RecordingTimeout ==
  (videoRequestAt # Null /\ now - videoRequestAt.val > CAPTURE_TIMEOUT)
    => (~videoRecordingStatus.recording /\ videoRecordingStatus.error # Null)

\* A finalized area has at least 3 vertices.
C17_Polygon == isAreaFinalized => Len(surveillancePoints) >= 3

\* C17: a finalized area has at least 3 vertices and keeps them; finalize is
\* rejected below 3 vertices and accepted from 3 on; the vertices of a finalized
\* area change only by a reset, by leaving surveillance mode or by hiding the
\* map.
C17_FinalizedArea ==
  /\ []C17_Polygon
  /\ [][ev' = "finalizeArea"
          => (isAreaFinalized' <=> (isAreaFinalized \/ Len(surveillancePoints) >= 3))]_vars
  /\ [][(isAreaFinalized /\ isAreaFinalized')
          => surveillancePoints' = surveillancePoints]_vars
  /\ [][(isAreaFinalized /\ (~isAreaFinalized' \/ surveillancePoints' # surveillancePoints))
          => ev' \in {"resetArea", "toggleSurveillanceMode", "toggleShowMap"}]_vars

\* A click on the map of a finalized area, which set the target instead.
C17_Witness ==
  /\ ev = "mapClick"
  /\ isAreaFinalized
  /\ surveillanceMode
  /\ Len(surveillancePoints) >= 3
  /\ targetLocation # Null

\* C18: the first video track of a session is bound to the primary sink and
\* the second to the secondary sink; a track that is not video is ignored and
\* consumes no ordinal; a role is bound only by the track with its ordinal, so
\* at most once per session, and a third or later video track is bound to no
\* role.
C18_TrackRoles ==
  /\ [][ev' = "trackOther" => (trackCount' = trackCount /\ videoTracks' = videoTracks)]_vars
  /\ [][ev' = "track" =>
          /\ trackCount' = trackCount + 1
          /\ videoTracks' =
               IF trackCount' = 1
               THEN [videoTracks EXCEPT !.regular = lastTrack'.peer,
                                        !.regularFeed = lastTrack'.feed]
               ELSE IF trackCount' = 2
               THEN [videoTracks EXCEPT !.thermal = lastTrack'.peer,
                                        !.thermalFeed = lastTrack'.feed]
               ELSE videoTracks]_vars
  /\ [][videoTracks' # videoTracks => (ev' = "track" /\ trackCount' \in {1, 2})]_vars
  /\ [][trackCount' # trackCount => (trackCount' = 0 \/ ev' = "track")]_vars

\* A third video track arrived after the two that were bound, and
\* was bound to no role.
C18_Witness ==
  /\ ev = "track"
  /\ trackCount = 3
  /\ lastTrack.feed = "C"
  /\ videoTracks.regularFeed = "A"
  /\ videoTracks.thermalFeed = "B"

\* C19: in a session in which only track B has arrived, the primary role is
\* unbound.
C19_PrimaryNeedsA ==
  (ev = "track" /\ trackCount = 1 /\ lastTrack.feed = "B")
    => videoTracks.regular # lastTrack.peer

\* The result for the next stick position differs by at most one step of the
\* rescaled range: the function has no jump.
noJump(value, deadzone, out) ==
  value < 1000 =>
    LET next == applyDeadzone(value + 1, deadzone)
    IN Abs(next.num * out.den - out.num * next.den) * (1000 - deadzone)
         <= out.den * next.den

\* C20 as stated: the result is 0 exactly for |x| < d, and for |x| >= d it
\* has the sign of x, has no jump, and is +1 at 1 and -1 at -1.
C20_ZeroInsideOnly ==
  calc.done =>
    /\ calc.out.num = 0 <=> Abs(calc.value) < calc.deadzone
    /\ Abs(calc.value) >= calc.deadzone =>
         /\ calc.out.den > 0
         /\ calc.out.num > 0 <=> calc.value > 0
         /\ calc.out.num < 0 <=> calc.value < 0
         /\ noJump(calc.value, calc.deadzone, calc.out)
         /\ calc.value = 1000 => calc.out.num = calc.out.den
         /\ calc.value = -1000 => calc.out.num = -calc.out.den

\* C20, amended: the result is 0 exactly for |x| <= d; for |x| > d it has the
\* sign of x; it has no jump anywhere, and it is +1 at 1 and -1 at -1.
C20_Deadzone ==
  calc.done =>
    /\ calc.out.den > 0
    /\ calc.out.num = 0 <=> Abs(calc.value) <= calc.deadzone
    /\ Abs(calc.value) > calc.deadzone =>
         /\ calc.out.num > 0 <=> calc.value > 0
         /\ calc.out.num < 0 <=> calc.value < 0
    /\ noJump(calc.value, calc.deadzone, calc.out)
    /\ calc.value = 1000 => calc.out.num = calc.out.den
    /\ calc.value = -1000 => calc.out.num = -calc.out.den

\* The function was applied on the edge of the dead zone.
C20_Witness ==
  /\ calc.done
  /\ calc.deadzone = JOYSTICK_DEADZONE
  /\ calc.value = -JOYSTICK_DEADZONE
  /\ calc.out.num = 0

\* C21: with the throttle stick held outside the dead zone, every poll tick
\* moves the throttle toward the bound on that side until it is clamped there.
C21_Integrative ==
  [][/\ (calc.raw > JOYSTICK_DEADZONE /\ calc.pwm < 2000) => calc'.pwm > calc.pwm
     /\ (calc.raw < -JOYSTICK_DEADZONE /\ calc.pwm > 1000) => calc'.pwm < calc.pwm]_vars

\* C22: an offer that is null, has no sdp or is not of type "offer" changes
\* nothing: the session, its listeners, the track counter and the connection
\* state stay as they are, and nothing is emitted.
C22_RejectedOffer ==
  [][(ev' \in {"offer", "offerRejected"}
       /\ (lastMsg' = Null \/ ~lastMsg'.sdp \/ lastMsg'.type # "offer"))
      => (ev' = "offerRejected" /\ UNCHANGED consoleVars /\ sentNow' = <<>>
            /\ statusTrail' = <<>>)]_vars

\* An offer without sdp was rejected while a session was open.
C22_Witness ==
  /\ ev = "offerRejected"
  /\ lastMsg = [null |-> FALSE, sdp |-> FALSE, type |-> "offer"]
  /\ peerRef # 0
  /\ peers[peerRef].phase = "open"
  /\ connectionStatus = "connected"

\* C23: once the session is torn down, a telemetry handler of that session
\* that resumes from its elevation request changes no console state (and no
\* peer event of the session is heard any more).
C23_NoStaleCallback ==
  [][(ev' = "fetchDone" /\ lastFetch'.h.src = "telemetry" /\ peerRef = 0)
      => UNCHANGED <<droneLocation, lastValidAGL, elevationCache>>]_vars

\* C24: the data channel opening, a heartbeat token and a valid LOCATION
\* message each set lastHeartbeatTime to the current time.
C24_Refreshed ==
  [][(ev' = "connect"
       \/ (ev' = "data" /\ (lastMsg' = HeartbeatMsg \/ locationFields(lastMsg') # Null)))
      => lastHeartbeatTime' = now]_vars

\* C25: every command handed to a peer is handed to one whose data channel
\* is open.
C25_SentOnOpen ==
  \A i \in 1..Len(sentNow) :
    sentNow[i].res # "dropped" => peers[sentNow[i].peer].phase = "open"

\* C26: the position shown is never replaced by the position of a LOCATION
\* message that was received earlier.
C26_NewestPosition ==
  [][(droneLocation # Null /\ droneLocation' # Null)
      => droneLocation'.seq >= droneLocation.seq]_vars

\* C27: while the session is connected, the release of a key whose command
\* was sent sends the matching STOP command, whatever happened to the control
\* mode meanwhile, and no key is marked active that is not held down.
C27_KeyReleased ==
  [][(ev' = "keyUp" /\ lastMsg'.key \in activeKeys /\ connectionStatus = "connected")
     => /\ lastMsg'.key \notin activeKeys'
        /\ \E i \in 1..Len(sentNow') :
             sentNow'[i].cmd = keyCommand(lastMsg'.key) \o "_STOP"]_vars

\* C28: for each channel the recorded last-sent PWM value is the value of the
\* last MANUAL_PWM command handed to the data channel for it, or the neutral
\* value when none was handed over; a dropped command does not advance it.
C28_LastSentIsLastEmitted ==
  \A ch \in Channels :
    lastSentPWMValues[ch] = IF lastEmitted[ch] = 0 THEN NeutralPWM[ch] ELSE lastEmitted[ch]

\* C29: a lookup for coordinates whose key is in the elevation cache issues no
\* external elevation request, on the map-click path and on the telemetry path.
C29_CacheHitNoRequest ==
  [][\A h \in pending' \ pending : cacheIndex(elevationCache, h.key) = 0]_vars

\* C30: a LOCATION message handled while the displayed position has a ground
\* elevation either carries that elevation forward, whatever its value (within
\* the threshold of the point it was queried for), or obtains a new one
\* (beyond it): the position it sets has a ground elevation, or a lookup is
\* started.
C30_GroundCarried ==
  [][(/\ ev' = "data"
      /\ locationFields(lastMsg') # Null
      /\ droneLocation # Null
      /\ droneLocation.groundElevation # Null)
     => (droneLocation'.groundElevation # Null \/ pending' # pending)]_vars

====
